---- MODULE Spec2Model ----
(***************************************************************************)
(* The PostgreSQL repositories of eschool-repository (User, School,        *)
(* Review, Certificate) as a state machine over the content of the store.  *)
(* One behaviour is one repository object, built by its constructor over   *)
(* an existing store, serving a sequence of calls.                         *)
(***************************************************************************)
EXTENDS Integers, Sequences, FiniteSets, TLC

VARIABLES repo, db, last, prev, pend

vars == <<repo, db, last, prev, pend>>

(***************************************************************************)
(* Bounds of the model.                                                    *)
(***************************************************************************)
MaxID == 2
MaxMembers == 1
MaxInFlight == 1

IDs == 1..MaxID
\* The users and courses the rows of this model refer to (as owner_id, user_id,
\* course_id): references into relations that other repositories write.
UserIDs == {1, 2}
CourseIDs == {1}
NoID == 0
Emails == {"a@x.com", "b@x.com"}
Passwords == {"pw"}
WrongPassword == "bad"
Names == {"Ann"}
Surnames == {"Lee"}

\* What a behaviour exercises: the methods of one repository; those of
\* PostgresSchoolRepo in two groups, the school relation's and the memberships'.
Repos == {"user", "school", "teachers", "review", "certificate"}

(***************************************************************************)
(* Errors of the storage driver (database/sql, pgconn).                    *)
(***************************************************************************)
PgUniqueViolationCode == "23505"
PgEnumValueError == "22P02"
PgForeignKeyViolationCode == "23503"

NoErr == [kind |-> "nil", code |-> ""]
ErrNoRows == [kind |-> "sql.ErrNoRows", code |-> ""]
PgError(c) == [kind |-> "pgconn.PgError", code |-> c]
ConnErr == [kind |-> "driver.ErrBadConn", code |-> ""]
CtxErr == [kind |-> "context.Canceled", code |-> ""]

\* What can go wrong in the store independently of the statement's rows.
ReadInj == {"none", "conn", "ctx", "pgother"}
DeleteInj == {"none", "conn", "ctx", "pgother"}
WriteInj == {"none", "conn", "ctx", "enum", "pgother"}

InjErr(inj) ==
  CASE inj = "conn" -> ConnErr
    [] inj = "ctx" -> CtxErr
    [] inj = "enum" -> PgError(PgEnumValueError)
    [] inj = "pgother" -> PgError(PgForeignKeyViolationCode)
    [] OTHER -> NoErr

(***************************************************************************)
(* Errors of the domain (errs) and their wrapping (errors.Wrap).           *)
(***************************************************************************)
ErrNotExist == "NotFound"
ErrDuplicate == "Duplicate"
ErrEnumValueError == "EnumValueError"
ErrUpdateFailed == "UpdateFailed"
ErrDeleteFailed == "DeleteFailed"
ErrPersistenceFailed == "PersistenceFailed"

ErrorKinds ==
  {ErrNotExist, ErrDuplicate, ErrEnumValueError, ErrUpdateFailed, ErrDeleteFailed,
   ErrPersistenceFailed}

Wrap(sentinel, derr) == [kind |-> sentinel, cause |-> derr]
Raw(derr) == [kind |-> "unclassified", cause |-> derr]
Nil == [kind |-> "nil", cause |-> NoErr]

(***************************************************************************)
(* Rows (package entity) and domain entities, and the conversions.         *)
(***************************************************************************)
ZeroPgUser == [id |-> NoID, email |-> "", password |-> "", name |-> "", surname |-> ""]
ZeroPgSchool == [id |-> NoID, owner_id |-> NoID]
ZeroPgReview == [id |-> NoID, user_id |-> NoID, course_id |-> NoID]
ZeroPgCertificate == [id |-> NoID, user_id |-> NoID, course_id |-> NoID]
ZeroPgCourse == [id |-> NoID, school_id |-> NoID]

ZeroUser == [ID |-> NoID, Email |-> "", Password |-> "", Name |-> "", Surname |-> ""]
ZeroSchool == [ID |-> NoID, OwnerID |-> NoID]
ZeroReview == [ID |-> NoID, UserID |-> NoID, CourseID |-> NoID]
ZeroCertificate == [ID |-> NoID, UserID |-> NoID, CourseID |-> NoID]
ZeroUserInfo == [Name |-> "", Surname |-> ""]

\* The ID of the row: the entity's, or a freshly generated one when unset.
AssignID(id, fresh) == IF id = NoID THEN fresh ELSE id

NewPgUser(u, fresh) ==
  [id |-> AssignID(u.ID, fresh), email |-> u.Email, password |-> u.Password,
   name |-> u.Name, surname |-> u.Surname]
NewPgSchool(s, fresh) == [id |-> AssignID(s.ID, fresh), owner_id |-> s.OwnerID]
NewPgReview(r, fresh) ==
  [id |-> AssignID(r.ID, fresh), user_id |-> r.UserID, course_id |-> r.CourseID]
NewPgCertificate(c, fresh) ==
  [id |-> AssignID(c.ID, fresh), user_id |-> c.UserID, course_id |-> c.CourseID]

UserToDomain(r) ==
  [ID |-> r.id, Email |-> r.email, Password |-> r.password, Name |-> r.name,
   Surname |-> r.surname]
SchoolToDomain(r) == [ID |-> r.id, OwnerID |-> r.owner_id]
ReviewToDomain(r) == [ID |-> r.id, UserID |-> r.user_id, CourseID |-> r.course_id]
CertificateToDomain(r) == [ID |-> r.id, UserID |-> r.user_id, CourseID |-> r.course_id]
CourseToDomain(r) == [ID |-> r.id, SchoolID |-> r.school_id]

\* The entities a caller passes to Create and Update.
Users ==
  [ID : IDs \cup {NoID}, Email : Emails, Password : Passwords, Name : Names,
   Surname : Surnames]
Schools == [ID : IDs \cup {NoID}, OwnerID : UserIDs]
Reviews == [ID : IDs \cup {NoID}, UserID : UserIDs, CourseID : CourseIDs]
Certificates == [ID : IDs \cup {NoID}, UserID : UserIDs, CourseID : CourseIDs]

(***************************************************************************)
(* The store: relations public.user, school, course, review, certificate   *)
(* and the join relation school_teacher, each a set of rows.               *)
(***************************************************************************)
Tables == {"user", "school", "course", "review", "certificate", "school_teacher"}

\* The uniqueness constraints of the schema: the primary keys, and user.email.
UniqueKeys(table) ==
  CASE table = "user" -> {{"id"}, {"email"}}
    [] table = "school_teacher" -> {{"school_id", "teacher_id"}}
    [] OTHER -> {{"id"}}

Collides(table, rows, row) ==
  \E r \in rows : \E key \in UniqueKeys(table) : \A c \in key : r[c] = row[c]

WellFormed(store) ==
  /\ \A t \in Tables : \A r \in store[t] : ~Collides(t, store[t] \ {r}, r)
  /\ Cardinality(store.school_teacher) <= MaxMembers

EmptyStore == [t \in Tables |-> {}]

\* A store that other parts of the application have already written to.
SeedStore ==
  [user |-> {[id |-> 1, email |-> "a@x.com", password |-> "pw", name |-> "Ann",
              surname |-> "Lee"]},
   school |-> {[id |-> 1, owner_id |-> 1]},
   course |-> {[id |-> 1, school_id |-> 1]},
   review |-> {},
   certificate |-> {},
   school_teacher |-> {[school_id |-> 1, teacher_id |-> 1]}]

InitStores == {EmptyStore, SeedStore}

\* All the orders in which the store may return the rows of a set.
Orders(rows) ==
  {s \in [1..Cardinality(rows) -> rows] : \A i, j \in 1..Cardinality(rows) : s[i] = s[j] => i = j}

\* SELECT ... FROM table WHERE cols[1] = $1 AND cols[2] = $2 ...
Matching(store, table, cols, args) ==
  {r \in store[table] : \A i \in 1..Len(cols) : r[cols[i]] = args[i]}

\* SELECT sel FROM ...: the columns not selected stay zero in the destination.
Scan(row, sel, zero) == [c \in DOMAIN zero |-> IF c \in sel THEN row[c] ELSE zero[c]]

\* sqlx GetContext: the first row of the result, sql.ErrNoRows when there is none.
GetContext(store, q, args, inj) ==
  IF inj # "none" THEN {[err |-> InjErr(inj), row |-> q.zero]}
  ELSE LET m == Matching(store, q.table, q.where, args)
       IN  IF m = {} THEN {[err |-> ErrNoRows, row |-> q.zero]}
           ELSE {[err |-> NoErr, row |-> Scan(r, q.sel, q.zero)] : r \in m}

\* sqlx SelectContext: all rows of the result, an empty list when there is none.
SelectContext(store, q, args, inj) ==
  IF inj # "none" THEN {[err |-> InjErr(inj), rows |-> <<>>]}
  ELSE {[err |-> NoErr, rows |-> [i \in DOMAIN s |-> Scan(s[i], q.sel, q.zero)]] :
          s \in Orders(Matching(store, q.table, q.where, args))}

\* INSERT INTO table (every column) VALUES (every field of the row)
ExecInsert(store, table, row, inj) ==
  IF inj # "none" THEN [err |-> InjErr(inj), db |-> store]
  ELSE IF Collides(table, store[table], row)
       THEN [err |-> PgError(PgUniqueViolationCode), db |-> store]
       ELSE [err |-> NoErr, db |-> [store EXCEPT ![table] = @ \cup {row}]]

\* UPDATE table SET (every column but id) WHERE id = :id
ExecUpdate(store, table, row, inj) ==
  LET hit == {r \in store[table] : r.id = row.id}
      rest == store[table] \ hit
  IN  IF inj # "none" THEN [err |-> InjErr(inj), db |-> store]
      ELSE IF hit = {} THEN [err |-> NoErr, db |-> store]
      ELSE IF Collides(table, rest, row)
           THEN [err |-> PgError(PgUniqueViolationCode), db |-> store]
           ELSE [err |-> NoErr, db |-> [store EXCEPT ![table] = rest \cup {row}]]

\* DELETE FROM table WHERE id = $1
ExecDelete(store, table, id, inj) ==
  IF inj # "none" THEN [err |-> InjErr(inj), db |-> store]
  ELSE [err |-> NoErr, db |-> [store EXCEPT ![table] = {r \in @ : r.id # id}]]

(***************************************************************************)
(* What a call leaves behind: the statements it issued with the driver's   *)
(* answer to each, the error and the value it returned, and the store.     *)
(***************************************************************************)
Stmt(query, derr) == [query |-> query, err |-> derr]
Out(stmts, err, ret, store) == [stmts |-> stmts, err |-> err, ret |-> ret, db |-> store]

Star(zero) == DOMAIN zero

(***************************************************************************)
(* PostgresUserRepo                                                        *)
(***************************************************************************)
userFindAllQuery ==
  [name |-> "userFindAllQuery", table |-> "user", where |-> <<>>,
   sel |-> Star(ZeroPgUser), zero |-> ZeroPgUser]
userFindByIDQuery ==
  [name |-> "userFindByIDQuery", table |-> "user", where |-> <<"id">>,
   sel |-> Star(ZeroPgUser), zero |-> ZeroPgUser]
userFindByEmailQuery ==
  [name |-> "userFindByEmailQuery", table |-> "user", where |-> <<"email">>,
   sel |-> Star(ZeroPgUser), zero |-> ZeroPgUser]
userFindByCredentialsQuery ==
  [name |-> "userFindByCredentialsQuery", table |-> "user",
   where |-> <<"email", "password">>, sel |-> Star(ZeroPgUser), zero |-> ZeroPgUser]
userFindUserInfoQuery ==
  [name |-> "userFindUserInfoQuery", table |-> "user", where |-> <<"id">>,
   sel |-> {"name", "surname"}, zero |-> ZeroPgUser]
userDeleteQuery == [name |-> "userDeleteQuery", table |-> "user"]

\* PostgresUserRepo.FindAll that reports an empty relation as NotFound.
FindAll_EmptyIsNotFound(store, inj) ==
  {IF o.err # NoErr
     THEN Out(<<Stmt("userFindAllQuery", o.err)>>, Wrap(ErrPersistenceFailed, o.err),
              <<>>, store)
     ELSE IF o.rows = <<>>
            THEN Out(<<Stmt("userFindAllQuery", o.err)>>, Wrap(ErrNotExist, ErrNoRows),
                     <<>>, store)
            ELSE Out(<<Stmt("userFindAllQuery", o.err)>>, Nil,
                     [i \in DOMAIN o.rows |-> UserToDomain(o.rows[i])], store)
   : o \in SelectContext(store, userFindAllQuery, <<>>, inj)}

PostgresUserRepo_FindAll(store, inj) ==
  {IF o.err # NoErr
     THEN IF o.err = ErrNoRows
            THEN Out(<<Stmt("userFindAllQuery", o.err)>>, Wrap(ErrNotExist, o.err), <<>>, store)
            ELSE Out(<<Stmt("userFindAllQuery", o.err)>>, Wrap(ErrPersistenceFailed, o.err),
                     <<>>, store)
     ELSE Out(<<Stmt("userFindAllQuery", o.err)>>, Nil,
              [i \in DOMAIN o.rows |-> UserToDomain(o.rows[i])], store)
   : o \in SelectContext(store, userFindAllQuery, <<>>, inj)}

\* PostgresUserRepo.FindByID with the sql.ErrNoRows branch lost: no error, zero user.
FindByID_SilentNoRows(store, userID, inj) ==
  {IF o.err # NoErr /\ o.err # ErrNoRows
     THEN Out(<<Stmt("userFindByIDQuery", o.err)>>, Wrap(ErrPersistenceFailed, o.err),
              ZeroUser, store)
     ELSE Out(<<Stmt("userFindByIDQuery", o.err)>>, Nil, UserToDomain(o.row), store)
   : o \in GetContext(store, userFindByIDQuery, <<userID>>, inj)}

PostgresUserRepo_FindByID(store, userID, inj) ==
  {IF o.err # NoErr
     THEN IF o.err = ErrNoRows
            THEN Out(<<Stmt("userFindByIDQuery", o.err)>>, Wrap(ErrNotExist, o.err),
                     ZeroUser, store)
            ELSE Out(<<Stmt("userFindByIDQuery", o.err)>>, Wrap(ErrPersistenceFailed, o.err),
                     ZeroUser, store)
     ELSE Out(<<Stmt("userFindByIDQuery", o.err)>>, Nil, UserToDomain(o.row), store)
   : o \in GetContext(store, userFindByIDQuery, <<userID>>, inj)}

PostgresUserRepo_FindByEmail(store, email, inj) ==
  {IF o.err # NoErr
     THEN IF o.err = ErrNoRows
            THEN Out(<<Stmt("userFindByEmailQuery", o.err)>>, Wrap(ErrNotExist, o.err),
                     ZeroUser, store)
            ELSE Out(<<Stmt("userFindByEmailQuery", o.err)>>,
                     Wrap(ErrPersistenceFailed, o.err), ZeroUser, store)
     ELSE Out(<<Stmt("userFindByEmailQuery", o.err)>>, Nil, UserToDomain(o.row), store)
   : o \in GetContext(store, userFindByEmailQuery, <<email>>, inj)}

PostgresUserRepo_FindByCredentials(store, email, password, inj) ==
  {IF o.err # NoErr
     THEN IF o.err = ErrNoRows
            THEN Out(<<Stmt("userFindByCredentialsQuery", o.err)>>, Wrap(ErrNotExist, o.err),
                     ZeroUser, store)
            ELSE Out(<<Stmt("userFindByCredentialsQuery", o.err)>>,
                     Wrap(ErrPersistenceFailed, o.err), ZeroUser, store)
     ELSE Out(<<Stmt("userFindByCredentialsQuery", o.err)>>, Nil, UserToDomain(o.row), store)
   : o \in GetContext(store, userFindByCredentialsQuery, <<email, password>>, inj)}

PostgresUserRepo_FindUserInfo(store, userID, inj) ==
  {IF o.err # NoErr
     THEN IF o.err = ErrNoRows
            THEN Out(<<Stmt("userFindUserInfoQuery", o.err)>>, Wrap(ErrNotExist, o.err),
                     ZeroUserInfo, store)
            ELSE Out(<<Stmt("userFindUserInfoQuery", o.err)>>,
                     Wrap(ErrPersistenceFailed, o.err), ZeroUserInfo, store)
     ELSE Out(<<Stmt("userFindUserInfoQuery", o.err)>>, Nil,
              [Name |-> o.row.name, Surname |-> o.row.surname], store)
   : o \in GetContext(store, userFindUserInfoQuery, <<userID>>, inj)}

\* PostgresUserRepo.Create that converts the read-back destination without
\* filling it from the stored row (only the assigned ID is carried over).
Create_NoReadBack(store, user, fresh, winj, rinj) ==
  LET pgUser == NewPgUser(user, fresh)
      w == ExecInsert(store, "user", pgUser, winj)
      ins == Stmt("InsertQueryString", w.err)
  IN  IF w.err # NoErr
        THEN IF w.err.kind = "pgconn.PgError" /\ w.err.code = PgUniqueViolationCode
               THEN {Out(<<ins>>, Wrap(ErrDuplicate, w.err), ZeroUser, w.db)}
               ELSE {Out(<<ins>>, Wrap(ErrPersistenceFailed, w.err), ZeroUser, w.db)}
        ELSE {IF r.err # NoErr
                THEN IF r.err = ErrNoRows
                       THEN Out(<<ins, Stmt("userFindByIDQuery", r.err)>>,
                                Wrap(ErrNotExist, r.err), ZeroUser, w.db)
                       ELSE Out(<<ins, Stmt("userFindByIDQuery", r.err)>>,
                                Wrap(ErrPersistenceFailed, r.err), ZeroUser, w.db)
                ELSE Out(<<ins, Stmt("userFindByIDQuery", r.err)>>, Nil,
                         UserToDomain([ZeroPgUser EXCEPT !.id = pgUser.id]), w.db)
              : r \in GetContext(w.db, userFindByIDQuery, <<pgUser.id>>, rinj)}

PostgresUserRepo_Create(store, user, fresh, winj, rinj) ==
  LET pgUser == NewPgUser(user, fresh)
      w == ExecInsert(store, "user", pgUser, winj)
      ins == Stmt("InsertQueryString", w.err)
  IN  IF w.err # NoErr
        THEN IF w.err.kind = "pgconn.PgError"
               THEN IF w.err.code = PgUniqueViolationCode
                      THEN {Out(<<ins>>, Wrap(ErrDuplicate, w.err), ZeroUser, w.db)}
                      ELSE {Out(<<ins>>, Wrap(ErrPersistenceFailed, w.err), ZeroUser, w.db)}
               ELSE {Out(<<ins>>, Wrap(ErrPersistenceFailed, w.err), ZeroUser, w.db)}
        ELSE {IF r.err # NoErr
                THEN IF r.err = ErrNoRows
                       THEN Out(<<ins, Stmt("userFindByIDQuery", r.err)>>,
                                Wrap(ErrNotExist, r.err), ZeroUser, w.db)
                       ELSE Out(<<ins, Stmt("userFindByIDQuery", r.err)>>,
                                Wrap(ErrPersistenceFailed, r.err), ZeroUser, w.db)
                ELSE Out(<<ins, Stmt("userFindByIDQuery", r.err)>>, Nil,
                         UserToDomain(r.row), w.db)
              : r \in GetContext(w.db, userFindByIDQuery, <<pgUser.id>>, rinj)}

\* PostgresUserRepo.Update whose statement binds the key alone: every other
\* column keeps its stored value.
Update_KeepsColumns(store, user, fresh, winj, rinj) ==
  LET pgUser == NewPgUser(user, fresh)
      w == IF winj # "none" THEN [err |-> InjErr(winj), db |-> store]
           ELSE [err |-> NoErr, db |-> store]
      upd == Stmt("UpdateQueryString", w.err)
  IN  IF w.err # NoErr
        THEN {Out(<<upd>>, Wrap(ErrUpdateFailed, w.err), ZeroUser, w.db)}
        ELSE {IF r.err # NoErr
                THEN IF r.err = ErrNoRows
                       THEN Out(<<upd, Stmt("userFindByIDQuery", r.err)>>,
                                Wrap(ErrNotExist, r.err), ZeroUser, w.db)
                       ELSE Out(<<upd, Stmt("userFindByIDQuery", r.err)>>,
                                Wrap(ErrPersistenceFailed, r.err), ZeroUser, w.db)
                ELSE Out(<<upd, Stmt("userFindByIDQuery", r.err)>>, Nil,
                         UserToDomain(r.row), w.db)
              : r \in GetContext(w.db, userFindByIDQuery, <<pgUser.id>>, rinj)}

PostgresUserRepo_Update(store, user, fresh, winj, rinj) ==
  LET pgUser == NewPgUser(user, fresh)
      w == ExecUpdate(store, "user", pgUser, winj)
      upd == Stmt("UpdateQueryString", w.err)
  IN  IF w.err # NoErr
        THEN {Out(<<upd>>, Wrap(ErrUpdateFailed, w.err), ZeroUser, w.db)}
        ELSE {IF r.err # NoErr
                THEN IF r.err = ErrNoRows
                       THEN Out(<<upd, Stmt("userFindByIDQuery", r.err)>>,
                                Wrap(ErrNotExist, r.err), ZeroUser, w.db)
                       ELSE Out(<<upd, Stmt("userFindByIDQuery", r.err)>>,
                                Wrap(ErrPersistenceFailed, r.err), ZeroUser, w.db)
                ELSE Out(<<upd, Stmt("userFindByIDQuery", r.err)>>, Nil,
                         UserToDomain(r.row), w.db)
              : r \in GetContext(w.db, userFindByIDQuery, <<pgUser.id>>, rinj)}

PostgresUserRepo_Delete(store, userID, inj) ==
  LET d == ExecDelete(store, userDeleteQuery.table, userID, inj)
  IN  IF d.err # NoErr
        THEN {Out(<<Stmt("userDeleteQuery", d.err)>>, Wrap(ErrDeleteFailed, d.err), NoID, d.db)}
        ELSE {Out(<<Stmt("userDeleteQuery", d.err)>>, Nil, NoID, d.db)}

(***************************************************************************)
(* PostgresSchoolRepo                                                      *)
(***************************************************************************)
schoolFindAllQuery ==
  [name |-> "schoolFindAllQuery", table |-> "school", where |-> <<>>,
   sel |-> Star(ZeroPgSchool), zero |-> ZeroPgSchool]
schoolFindByIDQuery ==
  [name |-> "schoolFindByIDQuery", table |-> "school", where |-> <<"id">>,
   sel |-> Star(ZeroPgSchool), zero |-> ZeroPgSchool]
schoolFindUserSchoolsQuery ==
  [name |-> "schoolFindUserSchoolsQuery", table |-> "school", where |-> <<"owner_id">>,
   sel |-> Star(ZeroPgSchool), zero |-> ZeroPgSchool]
schoolFindSchoolCoursesQuery ==
  [name |-> "schoolFindSchoolCoursesQuery", table |-> "course", where |-> <<"school_id">>,
   sel |-> Star(ZeroPgCourse), zero |-> ZeroPgCourse]
\* SELECT u.* FROM user u JOIN school_teacher st ON u.id = st.teacher_id
\*   JOIN school s ON st.school_id = s.id WHERE s.id = $1
schoolFindSchoolTeachersQuery(store, args, inj) ==
  IF inj # "none" THEN {[err |-> InjErr(inj), rows |-> <<>>]}
  ELSE {[err |-> NoErr, rows |-> rows] :
          rows \in Orders({u \in store.user :
                             \E st \in store.school_teacher : \E s \in store.school :
                               /\ u.id = st.teacher_id
                               /\ st.school_id = s.id
                               /\ s.id = args[1]})}
\* SELECT EXISTS (SELECT 1 FROM school_teacher WHERE school_id = $1 AND teacher_id = $2)
schoolContainsTeacherQuery(store, args, inj) ==
  IF inj # "none" THEN [err |-> InjErr(inj), val |-> FALSE]
  ELSE [err |-> NoErr,
        val |-> \E st \in store.school_teacher :
                  st.school_id = args[1] /\ st.teacher_id = args[2]]
\* INSERT INTO school_teacher (school_id, teacher_id) VALUES ($1, $2): the
\* columns of the statement exchanged.
AddTeacherQuery_ColumnsSwapped(store, args, inj) ==
  ExecInsert(store, "school_teacher", [teacher_id |-> args[2], school_id |-> args[1]], inj)

\* INSERT INTO school_teacher (teacher_id, school_id) VALUES ($1, $2)
schoolAddTeacherQuery(store, args, inj) ==
  ExecInsert(store, "school_teacher", [teacher_id |-> args[1], school_id |-> args[2]], inj)
schoolDeleteQuery == [name |-> "schoolDeleteQuery", table |-> "school"]

PostgresSchoolRepo_FindAll(store, inj) ==
  {IF o.err # NoErr
     THEN IF o.err = ErrNoRows
            THEN Out(<<Stmt("schoolFindAllQuery", o.err)>>, Wrap(ErrNotExist, o.err), <<>>, store)
            ELSE Out(<<Stmt("schoolFindAllQuery", o.err)>>, Wrap(ErrPersistenceFailed, o.err),
                     <<>>, store)
     ELSE Out(<<Stmt("schoolFindAllQuery", o.err)>>, Nil,
              [i \in DOMAIN o.rows |-> SchoolToDomain(o.rows[i])], store)
   : o \in SelectContext(store, schoolFindAllQuery, <<>>, inj)}

PostgresSchoolRepo_FindByID(store, schoolID, inj) ==
  {IF o.err # NoErr
     THEN IF o.err = ErrNoRows
            THEN Out(<<Stmt("schoolFindByIDQuery", o.err)>>, Wrap(ErrNotExist, o.err),
                     ZeroSchool, store)
            ELSE Out(<<Stmt("schoolFindByIDQuery", o.err)>>,
                     Wrap(ErrPersistenceFailed, o.err), ZeroSchool, store)
     ELSE Out(<<Stmt("schoolFindByIDQuery", o.err)>>, Nil, SchoolToDomain(o.row), store)
   : o \in GetContext(store, schoolFindByIDQuery, <<schoolID>>, inj)}

PostgresSchoolRepo_FindUserSchools(store, userID, inj) ==
  {IF o.err # NoErr
     THEN IF o.err = ErrNoRows
            THEN Out(<<Stmt("schoolFindUserSchoolsQuery", o.err)>>, Wrap(ErrNotExist, o.err),
                     <<>>, store)
            ELSE Out(<<Stmt("schoolFindUserSchoolsQuery", o.err)>>,
                     Wrap(ErrPersistenceFailed, o.err), <<>>, store)
     ELSE Out(<<Stmt("schoolFindUserSchoolsQuery", o.err)>>, Nil,
              [i \in DOMAIN o.rows |-> SchoolToDomain(o.rows[i])], store)
   : o \in SelectContext(store, schoolFindUserSchoolsQuery, <<userID>>, inj)}

PostgresSchoolRepo_FindSchoolCourses(store, schoolID, inj) ==
  {IF o.err # NoErr
     THEN IF o.err = ErrNoRows
            THEN Out(<<Stmt("schoolFindSchoolCoursesQuery", o.err)>>, Wrap(ErrNotExist, o.err),
                     <<>>, store)
            ELSE Out(<<Stmt("schoolFindSchoolCoursesQuery", o.err)>>,
                     Wrap(ErrPersistenceFailed, o.err), <<>>, store)
     ELSE Out(<<Stmt("schoolFindSchoolCoursesQuery", o.err)>>, Nil,
              [i \in DOMAIN o.rows |-> CourseToDomain(o.rows[i])], store)
   : o \in SelectContext(store, schoolFindSchoolCoursesQuery, <<schoolID>>, inj)}

PostgresSchoolRepo_FindSchoolTeachers(store, schoolID, inj) ==
  {IF o.err # NoErr
     THEN IF o.err = ErrNoRows
            THEN Out(<<Stmt("schoolFindSchoolTeachersQuery", o.err)>>,
                     Wrap(ErrNotExist, o.err), <<>>, store)
            ELSE Out(<<Stmt("schoolFindSchoolTeachersQuery", o.err)>>,
                     Wrap(ErrPersistenceFailed, o.err), <<>>, store)
     ELSE Out(<<Stmt("schoolFindSchoolTeachersQuery", o.err)>>, Nil,
              [i \in DOMAIN o.rows |-> UserToDomain(o.rows[i])], store)
   : o \in schoolFindSchoolTeachersQuery(store, <<schoolID>>, inj)}

PostgresSchoolRepo_IsSchoolTeacher(store, schoolID, teacherID, inj) ==
  LET o == schoolContainsTeacherQuery(store, <<schoolID, teacherID>>, inj)
  IN  IF o.err # NoErr
        THEN {Out(<<Stmt("schoolContainsTeacherQuery", o.err)>>, Raw(o.err), FALSE, store)}
        ELSE {Out(<<Stmt("schoolContainsTeacherQuery", o.err)>>, Nil, o.val, store)}

\* PostgresSchoolRepo.AddSchoolTeacher without the PgUniqueViolationCode branch.
AddSchoolTeacher_UniqueUnclassified(store, schoolID, teacherID, inj) ==
  LET w == schoolAddTeacherQuery(store, <<teacherID, schoolID>>, inj)
      ins == Stmt("schoolAddTeacherQuery", w.err)
  IN  IF w.err # NoErr
        THEN {Out(<<ins>>, Wrap(ErrPersistenceFailed, w.err), NoID, w.db)}
        ELSE {Out(<<ins>>, Nil, NoID, w.db)}

\* PostgresSchoolRepo.AddSchoolTeacher that binds (schoolID, teacherID) to the
\* statement's (teacher_id, school_id).
AddSchoolTeacher_ArgsSwapped(store, schoolID, teacherID, inj) ==
  LET w == schoolAddTeacherQuery(store, <<schoolID, teacherID>>, inj)
      ins == Stmt("schoolAddTeacherQuery", w.err)
  IN  IF w.err # NoErr
        THEN IF w.err.kind = "pgconn.PgError" /\ w.err.code = PgUniqueViolationCode
               THEN {Out(<<ins>>, Wrap(ErrDuplicate, w.err), NoID, w.db)}
               ELSE {Out(<<ins>>, Wrap(ErrPersistenceFailed, w.err), NoID, w.db)}
        ELSE {Out(<<ins>>, Nil, NoID, w.db)}

PostgresSchoolRepo_AddSchoolTeacher(store, schoolID, teacherID, inj) ==
  LET w == schoolAddTeacherQuery(store, <<teacherID, schoolID>>, inj)
      ins == Stmt("schoolAddTeacherQuery", w.err)
  IN  IF w.err # NoErr
        THEN IF w.err.kind = "pgconn.PgError"
               THEN IF w.err.code = PgUniqueViolationCode
                      THEN {Out(<<ins>>, Wrap(ErrDuplicate, w.err), NoID, w.db)}
                      ELSE {Out(<<ins>>, Wrap(ErrPersistenceFailed, w.err), NoID, w.db)}
               ELSE {Out(<<ins>>, Wrap(ErrPersistenceFailed, w.err), NoID, w.db)}
        ELSE {Out(<<ins>>, Nil, NoID, w.db)}

\* PostgresSchoolRepo.Create in a transaction that is rolled back when the
\* read-back fails: the store is left as it was found.
Create_RollsBack(store, school, fresh, winj, rinj) ==
  LET pgSchool == NewPgSchool(school, fresh)
      w == ExecInsert(store, "school", pgSchool, winj)
      ins == Stmt("InsertQueryString", w.err)
  IN  IF w.err # NoErr
        THEN IF w.err.kind = "pgconn.PgError" /\ w.err.code = PgUniqueViolationCode
               THEN {Out(<<ins>>, Wrap(ErrDuplicate, w.err), ZeroSchool, store)}
               ELSE {Out(<<ins>>, Wrap(ErrPersistenceFailed, w.err), ZeroSchool, store)}
        ELSE {IF r.err # NoErr
                THEN IF r.err = ErrNoRows
                       THEN Out(<<ins, Stmt("schoolFindByIDQuery", r.err)>>,
                                Wrap(ErrNotExist, r.err), ZeroSchool, store)
                       ELSE Out(<<ins, Stmt("schoolFindByIDQuery", r.err)>>,
                                Wrap(ErrPersistenceFailed, r.err), ZeroSchool, store)
                ELSE Out(<<ins, Stmt("schoolFindByIDQuery", r.err)>>, Nil,
                         SchoolToDomain(r.row), w.db)
              : r \in GetContext(w.db, schoolFindByIDQuery, <<pgSchool.id>>, rinj)}

PostgresSchoolRepo_Create(store, school, fresh, winj, rinj) ==
  LET pgSchool == NewPgSchool(school, fresh)
      w == ExecInsert(store, "school", pgSchool, winj)
      ins == Stmt("InsertQueryString", w.err)
  IN  IF w.err # NoErr
        THEN IF w.err.kind = "pgconn.PgError"
               THEN IF w.err.code = PgUniqueViolationCode
                      THEN {Out(<<ins>>, Wrap(ErrDuplicate, w.err), ZeroSchool, w.db)}
                      ELSE {Out(<<ins>>, Wrap(ErrPersistenceFailed, w.err), ZeroSchool, w.db)}
               ELSE {Out(<<ins>>, Wrap(ErrPersistenceFailed, w.err), ZeroSchool, w.db)}
        ELSE {IF r.err # NoErr
                THEN IF r.err = ErrNoRows
                       THEN Out(<<ins, Stmt("schoolFindByIDQuery", r.err)>>,
                                Wrap(ErrNotExist, r.err), ZeroSchool, w.db)
                       ELSE Out(<<ins, Stmt("schoolFindByIDQuery", r.err)>>,
                                Wrap(ErrPersistenceFailed, r.err), ZeroSchool, w.db)
                ELSE Out(<<ins, Stmt("schoolFindByIDQuery", r.err)>>, Nil,
                         SchoolToDomain(r.row), w.db)
              : r \in GetContext(w.db, schoolFindByIDQuery, <<pgSchool.id>>, rinj)}

\* PostgresSchoolRepo.Update built on the INSERT statement when the row is
\* missing (an upsert).
Update_Upsert(store, school, fresh, winj, rinj) ==
  LET pgSchool == NewPgSchool(school, fresh)
      w == IF \E r \in store.school : r.id = pgSchool.id
             THEN ExecUpdate(store, "school", pgSchool, winj)
             ELSE ExecInsert(store, "school", pgSchool, winj)
      upd == Stmt("UpdateQueryString", w.err)
  IN  IF w.err # NoErr
        THEN {Out(<<upd>>, Wrap(ErrUpdateFailed, w.err), ZeroSchool, w.db)}
        ELSE {IF r.err # NoErr
                THEN IF r.err = ErrNoRows
                       THEN Out(<<upd, Stmt("schoolFindByIDQuery", r.err)>>,
                                Wrap(ErrNotExist, r.err), ZeroSchool, w.db)
                       ELSE Out(<<upd, Stmt("schoolFindByIDQuery", r.err)>>,
                                Wrap(ErrPersistenceFailed, r.err), ZeroSchool, w.db)
                ELSE Out(<<upd, Stmt("schoolFindByIDQuery", r.err)>>, Nil,
                         SchoolToDomain(r.row), w.db)
              : r \in GetContext(w.db, schoolFindByIDQuery, <<pgSchool.id>>, rinj)}

PostgresSchoolRepo_Update(store, school, fresh, winj, rinj) ==
  LET pgSchool == NewPgSchool(school, fresh)
      w == ExecUpdate(store, "school", pgSchool, winj)
      upd == Stmt("UpdateQueryString", w.err)
  IN  IF w.err # NoErr
        THEN {Out(<<upd>>, Wrap(ErrUpdateFailed, w.err), ZeroSchool, w.db)}
        ELSE {IF r.err # NoErr
                THEN IF r.err = ErrNoRows
                       THEN Out(<<upd, Stmt("schoolFindByIDQuery", r.err)>>,
                                Wrap(ErrNotExist, r.err), ZeroSchool, w.db)
                       ELSE Out(<<upd, Stmt("schoolFindByIDQuery", r.err)>>,
                                Wrap(ErrPersistenceFailed, r.err), ZeroSchool, w.db)
                ELSE Out(<<upd, Stmt("schoolFindByIDQuery", r.err)>>, Nil,
                         SchoolToDomain(r.row), w.db)
              : r \in GetContext(w.db, schoolFindByIDQuery, <<pgSchool.id>>, rinj)}

\* PostgresSchoolRepo.Delete that reports a failed statement as a generic
\* persistence failure.
Delete_AsPersistenceFailed(store, schoolID, inj) ==
  LET d == ExecDelete(store, schoolDeleteQuery.table, schoolID, inj)
  IN  IF d.err # NoErr
        THEN {Out(<<Stmt("schoolDeleteQuery", d.err)>>, Wrap(ErrPersistenceFailed, d.err),
                  NoID, d.db)}
        ELSE {Out(<<Stmt("schoolDeleteQuery", d.err)>>, Nil, NoID, d.db)}

PostgresSchoolRepo_Delete(store, schoolID, inj) ==
  LET d == ExecDelete(store, schoolDeleteQuery.table, schoolID, inj)
  IN  IF d.err # NoErr
        THEN {Out(<<Stmt("schoolDeleteQuery", d.err)>>, Wrap(ErrDeleteFailed, d.err), NoID, d.db)}
        ELSE {Out(<<Stmt("schoolDeleteQuery", d.err)>>, Nil, NoID, d.db)}

(***************************************************************************)
(* PostgresReviewRepo                                                      *)
(***************************************************************************)
reviewFindAllQuery ==
  [name |-> "reviewFindAllQuery", table |-> "review", where |-> <<>>,
   sel |-> Star(ZeroPgReview), zero |-> ZeroPgReview]
reviewFindByIDQuery ==
  [name |-> "reviewFindByIDQuery", table |-> "review", where |-> <<"id">>,
   sel |-> Star(ZeroPgReview), zero |-> ZeroPgReview]
reviewFindUserReviewsQuery ==
  [name |-> "reviewFindUserReviewsQuery", table |-> "review", where |-> <<"user_id">>,
   sel |-> Star(ZeroPgReview), zero |-> ZeroPgReview]
reviewFindCourseReviewsQuery ==
  [name |-> "reviewFindCourseReviewsQuery", table |-> "review", where |-> <<"course_id">>,
   sel |-> Star(ZeroPgReview), zero |-> ZeroPgReview]
\* "DELETE FROM public.school WHERE id = $1"
reviewDeleteQuery == [name |-> "reviewDeleteQuery", table |-> "school"]

PostgresReviewRepo_FindAll(store, inj) ==
  {IF o.err # NoErr
     THEN IF o.err = ErrNoRows
            THEN Out(<<Stmt("reviewFindAllQuery", o.err)>>, Wrap(ErrNotExist, o.err), <<>>, store)
            ELSE Out(<<Stmt("reviewFindAllQuery", o.err)>>, Wrap(ErrPersistenceFailed, o.err),
                     <<>>, store)
     ELSE Out(<<Stmt("reviewFindAllQuery", o.err)>>, Nil,
              [i \in DOMAIN o.rows |-> ReviewToDomain(o.rows[i])], store)
   : o \in SelectContext(store, reviewFindAllQuery, <<>>, inj)}

PostgresReviewRepo_FindByID(store, reviewID, inj) ==
  {IF o.err # NoErr
     THEN IF o.err = ErrNoRows
            THEN Out(<<Stmt("reviewFindByIDQuery", o.err)>>, Wrap(ErrNotExist, o.err),
                     ZeroReview, store)
            ELSE Out(<<Stmt("reviewFindByIDQuery", o.err)>>,
                     Wrap(ErrPersistenceFailed, o.err), ZeroReview, store)
     ELSE Out(<<Stmt("reviewFindByIDQuery", o.err)>>, Nil, ReviewToDomain(o.row), store)
   : o \in GetContext(store, reviewFindByIDQuery, <<reviewID>>, inj)}

PostgresReviewRepo_FindUserReviews(store, userID, inj) ==
  {IF o.err # NoErr
     THEN IF o.err = ErrNoRows
            THEN Out(<<Stmt("reviewFindUserReviewsQuery", o.err)>>, Wrap(ErrNotExist, o.err),
                     <<>>, store)
            ELSE Out(<<Stmt("reviewFindUserReviewsQuery", o.err)>>,
                     Wrap(ErrPersistenceFailed, o.err), <<>>, store)
     ELSE Out(<<Stmt("reviewFindUserReviewsQuery", o.err)>>, Nil,
              [i \in DOMAIN o.rows |-> ReviewToDomain(o.rows[i])], store)
   : o \in SelectContext(store, reviewFindUserReviewsQuery, <<userID>>, inj)}

PostgresReviewRepo_FindCourseReviews(store, courseID, inj) ==
  {IF o.err # NoErr
     THEN IF o.err = ErrNoRows
            THEN Out(<<Stmt("reviewFindCourseReviewsQuery", o.err)>>, Wrap(ErrNotExist, o.err),
                     <<>>, store)
            ELSE Out(<<Stmt("reviewFindCourseReviewsQuery", o.err)>>,
                     Wrap(ErrPersistenceFailed, o.err), <<>>, store)
     ELSE Out(<<Stmt("reviewFindCourseReviewsQuery", o.err)>>, Nil,
              [i \in DOMAIN o.rows |-> ReviewToDomain(o.rows[i])], store)
   : o \in SelectContext(store, reviewFindCourseReviewsQuery, <<courseID>>, inj)}

\* PostgresReviewRepo.Create without the PgUniqueViolationCode branch.
Create_UniqueUnclassified(store, review, fresh, winj, rinj) ==
  LET pgReview == NewPgReview(review, fresh)
      w == ExecInsert(store, "review", pgReview, winj)
      ins == Stmt("InsertQueryString", w.err)
  IN  IF w.err # NoErr
        THEN {Out(<<ins>>, Wrap(ErrPersistenceFailed, w.err), ZeroReview, w.db)}
        ELSE {IF r.err # NoErr
                THEN IF r.err = ErrNoRows
                       THEN Out(<<ins, Stmt("reviewFindByIDQuery", r.err)>>,
                                Wrap(ErrNotExist, r.err), ZeroReview, w.db)
                       ELSE Out(<<ins, Stmt("reviewFindByIDQuery", r.err)>>,
                                Wrap(ErrPersistenceFailed, r.err), ZeroReview, w.db)
                ELSE Out(<<ins, Stmt("reviewFindByIDQuery", r.err)>>, Nil,
                         ReviewToDomain(r.row), w.db)
              : r \in GetContext(w.db, reviewFindByIDQuery, <<pgReview.id>>, rinj)}

PostgresReviewRepo_Create(store, review, fresh, winj, rinj) ==
  LET pgReview == NewPgReview(review, fresh)
      w == ExecInsert(store, "review", pgReview, winj)
      ins == Stmt("InsertQueryString", w.err)
  IN  IF w.err # NoErr
        THEN IF w.err.kind = "pgconn.PgError"
               THEN IF w.err.code = PgUniqueViolationCode
                      THEN {Out(<<ins>>, Wrap(ErrDuplicate, w.err), ZeroReview, w.db)}
                      ELSE {Out(<<ins>>, Wrap(ErrPersistenceFailed, w.err), ZeroReview, w.db)}
               ELSE {Out(<<ins>>, Wrap(ErrPersistenceFailed, w.err), ZeroReview, w.db)}
        ELSE {IF r.err # NoErr
                THEN IF r.err = ErrNoRows
                       THEN Out(<<ins, Stmt("reviewFindByIDQuery", r.err)>>,
                                Wrap(ErrNotExist, r.err), ZeroReview, w.db)
                       ELSE Out(<<ins, Stmt("reviewFindByIDQuery", r.err)>>,
                                Wrap(ErrPersistenceFailed, r.err), ZeroReview, w.db)
                ELSE Out(<<ins, Stmt("reviewFindByIDQuery", r.err)>>, Nil,
                         ReviewToDomain(r.row), w.db)
              : r \in GetContext(w.db, reviewFindByIDQuery, <<pgReview.id>>, rinj)}

PostgresReviewRepo_Delete(store, reviewID, inj) ==
  LET d == ExecDelete(store, reviewDeleteQuery.table, reviewID, inj)
  IN  IF d.err # NoErr
        THEN {Out(<<Stmt("reviewDeleteQuery", d.err)>>, Wrap(ErrDeleteFailed, d.err), NoID, d.db)}
        ELSE {Out(<<Stmt("reviewDeleteQuery", d.err)>>, Nil, NoID, d.db)}

(***************************************************************************)
(* PostgresCertificateRepo                                                 *)
(***************************************************************************)
certificateFindAllQuery ==
  [name |-> "certificateFindAllQuery", table |-> "certificate", where |-> <<>>,
   sel |-> Star(ZeroPgCertificate), zero |-> ZeroPgCertificate]
certificateFindByIDQuery ==
  [name |-> "certificateFindByIDQuery", table |-> "certificate", where |-> <<"id">>,
   sel |-> Star(ZeroPgCertificate), zero |-> ZeroPgCertificate]
certificateFindByCourseAndUserIDQuery ==
  [name |-> "certificateFindByCourseAndUserIDQuery", table |-> "certificate",
   where |-> <<"course_id", "user_id">>, sel |-> Star(ZeroPgCertificate),
   zero |-> ZeroPgCertificate]
certificateFindUserCertificatesQuery ==
  [name |-> "certificateFindUserCertificatesQuery", table |-> "certificate",
   where |-> <<"user_id">>, sel |-> Star(ZeroPgCertificate), zero |-> ZeroPgCertificate]

PostgresCertificateRepo_FindAll(store, inj) ==
  {IF o.err # NoErr
     THEN IF o.err = ErrNoRows
            THEN Out(<<Stmt("certificateFindAllQuery", o.err)>>, Wrap(ErrNotExist, o.err),
                     <<>>, store)
            ELSE Out(<<Stmt("certificateFindAllQuery", o.err)>>,
                     Wrap(ErrPersistenceFailed, o.err), <<>>, store)
     ELSE Out(<<Stmt("certificateFindAllQuery", o.err)>>, Nil,
              [i \in DOMAIN o.rows |-> CertificateToDomain(o.rows[i])], store)
   : o \in SelectContext(store, certificateFindAllQuery, <<>>, inj)}

PostgresCertificateRepo_FindByID(store, certID, inj) ==
  {IF o.err # NoErr
     THEN IF o.err = ErrNoRows
            THEN Out(<<Stmt("certificateFindByIDQuery", o.err)>>, Wrap(ErrNotExist, o.err),
                     ZeroCertificate, store)
            ELSE Out(<<Stmt("certificateFindByIDQuery", o.err)>>,
                     Wrap(ErrPersistenceFailed, o.err), ZeroCertificate, store)
     ELSE Out(<<Stmt("certificateFindByIDQuery", o.err)>>, Nil,
              CertificateToDomain(o.row), store)
   : o \in GetContext(store, certificateFindByIDQuery, <<certID>>, inj)}

PostgresCertificateRepo_FindUserCertificates(store, userID, inj) ==
  {IF o.err # NoErr
     THEN IF o.err = ErrNoRows
            THEN Out(<<Stmt("certificateFindUserCertificatesQuery", o.err)>>,
                     Wrap(ErrNotExist, o.err), <<>>, store)
            ELSE Out(<<Stmt("certificateFindUserCertificatesQuery", o.err)>>,
                     Wrap(ErrPersistenceFailed, o.err), <<>>, store)
     ELSE Out(<<Stmt("certificateFindUserCertificatesQuery", o.err)>>, Nil,
              [i \in DOMAIN o.rows |-> CertificateToDomain(o.rows[i])], store)
   : o \in SelectContext(store, certificateFindUserCertificatesQuery, <<userID>>, inj)}

PostgresCertificateRepo_FindUserCourseCertificate(store, courseID, userID, inj) ==
  {IF o.err # NoErr
     THEN IF o.err = ErrNoRows
            THEN Out(<<Stmt("certificateFindByCourseAndUserIDQuery", o.err)>>,
                     Wrap(ErrNotExist, o.err), ZeroCertificate, store)
            ELSE Out(<<Stmt("certificateFindByCourseAndUserIDQuery", o.err)>>,
                     Wrap(ErrPersistenceFailed, o.err), ZeroCertificate, store)
     ELSE Out(<<Stmt("certificateFindByCourseAndUserIDQuery", o.err)>>, Nil,
              CertificateToDomain(o.row), store)
   : o \in GetContext(store, certificateFindByCourseAndUserIDQuery, <<courseID, userID>>, inj)}

\* PostgresCertificateRepo.Create that issues the INSERT a second time when
\* the first one fails on the connection, and reads back whatever the
\* second one said.
Create_RetryOnce(store, cert, fresh, winj, rinj) ==
  LET pgCertificate == NewPgCertificate(cert, fresh)
      w == ExecInsert(store, "certificate", pgCertificate, winj)
      ins == Stmt("InsertQueryString", w.err)
      w2 == ExecInsert(store, "certificate", pgCertificate, "none")
      ins2 == Stmt("InsertQueryString", w2.err)
  IN  IF w.err = ConnErr
        THEN {IF r.err # NoErr
                THEN Out(<<ins, ins2, Stmt("certificateFindByIDQuery", r.err)>>,
                         Wrap(ErrNotExist, r.err), ZeroCertificate, w2.db)
                ELSE Out(<<ins, ins2, Stmt("certificateFindByIDQuery", r.err)>>, Nil,
                         CertificateToDomain(r.row), w2.db)
              : r \in GetContext(w2.db, certificateFindByIDQuery, <<pgCertificate.id>>, "none")}
        ELSE IF w.err # NoErr
        THEN {Out(<<ins>>, Wrap(ErrPersistenceFailed, w.err), ZeroCertificate, w.db)}
        ELSE {IF r.err # NoErr
                THEN Out(<<ins, Stmt("certificateFindByIDQuery", r.err)>>,
                         Wrap(ErrNotExist, r.err), ZeroCertificate, w.db)
                ELSE Out(<<ins, Stmt("certificateFindByIDQuery", r.err)>>, Nil,
                         CertificateToDomain(r.row), w.db)
              : r \in GetContext(w.db, certificateFindByIDQuery, <<pgCertificate.id>>, rinj)}

PostgresCertificateRepo_Create(store, cert, fresh, winj, rinj) ==
  LET pgCertificate == NewPgCertificate(cert, fresh)
      w == ExecInsert(store, "certificate", pgCertificate, winj)
      ins == Stmt("InsertQueryString", w.err)
  IN  IF w.err # NoErr
        THEN IF w.err.kind = "pgconn.PgError"
               THEN IF w.err.code = PgUniqueViolationCode
                      THEN {Out(<<ins>>, Wrap(ErrDuplicate, w.err), ZeroCertificate, w.db)}
                      ELSE IF w.err.code = PgEnumValueError
                             THEN {Out(<<ins>>, Wrap(ErrEnumValueError, w.err),
                                       ZeroCertificate, w.db)}
                             ELSE {Out(<<ins>>, Wrap(ErrPersistenceFailed, w.err),
                                       ZeroCertificate, w.db)}
               ELSE {Out(<<ins>>, Wrap(ErrPersistenceFailed, w.err), ZeroCertificate, w.db)}
        ELSE {IF r.err # NoErr
                THEN IF r.err = ErrNoRows
                       THEN Out(<<ins, Stmt("certificateFindByIDQuery", r.err)>>,
                                Wrap(ErrNotExist, r.err), ZeroCertificate, w.db)
                       ELSE Out(<<ins, Stmt("certificateFindByIDQuery", r.err)>>,
                                Wrap(ErrPersistenceFailed, r.err), ZeroCertificate, w.db)
                ELSE Out(<<ins, Stmt("certificateFindByIDQuery", r.err)>>, Nil,
                         CertificateToDomain(r.row), w.db)
              : r \in GetContext(w.db, certificateFindByIDQuery, <<pgCertificate.id>>, rinj)}

(***************************************************************************)
(* The state machine.  repo is the repository the constructor built        *)
(* (NewUserRepo, NewSchoolRepo, NewReviewRepo, NewCertificateRepo), db the  *)
(* store behind its handle, last the latest call and what it returned,     *)
(* prev the write that succeeded on the same ID right before it, if any.   *)
(* last.existed tells whether the repository's own relation held a row     *)
(* with the call's ID when the call began, last.wrote whether the call     *)
(* changed the store.  pend holds the calls between their write and their  *)
(* read-back; it stays idle where every call is served as one step.        *)
(***************************************************************************)
Has(store, table, id) == \E r \in store[table] : r.id = id

\* The IDs a generator may hand out: those no row of the relation carries.
FreshIDs(store, table, id) ==
  IF id = NoID THEN {i \in IDs : ~Has(store, table, i)} ELSE {NoID}

\* The read-back is not issued when the write statement fails in the store.
ReadbackInj(winj) == IF winj = "none" THEN ReadInj ELSE {"none"}

\* The relation of the repository's entity.
OwnTable(r) == IF r = "teachers" THEN "school" ELSE r

\* The calls that have issued their write and not yet their read-back.
Slots == 1..MaxInFlight
Idle ==
  [op |-> "idle", id |-> NoID, write |-> Stmt("", NoErr), wrote |-> FALSE, race |-> "none"]

Init ==
  /\ repo \in Repos
  /\ db \in InitStores
  /\ last = [op |-> "New", arg |-> NoID, key |-> NoID, existed |-> FALSE,
             stmts |-> <<>>, err |-> Nil, ret |-> NoID, wrote |-> FALSE]
  /\ prev = [op |-> "-", wrote |-> FALSE]
  /\ pend = [s \in Slots |-> Idle]

\* A call returns: op is the method, arg its argument, key the ID it is about.
Return(op, arg, key, o) ==
  /\ db' = o.db
  /\ last' = [op |-> op, arg |-> arg, key |-> key, existed |-> Has(db, OwnTable(repo), key),
              stmts |-> o.stmts, err |-> o.err, ret |-> o.ret, wrote |-> (o.db # db)]
  /\ prev' = IF last.op \in {"Create", "Update", "Delete"} /\ last.err = Nil /\ last.key = key
              THEN [op |-> last.op, wrote |-> last.wrote]
              ELSE [op |-> "-", wrote |-> FALSE]
  /\ UNCHANGED <<repo, pend>>

UserFindAll ==
  /\ repo = "user"
  /\ \E inj \in ReadInj : \E o \in PostgresUserRepo_FindAll(db, inj) :
       Return("FindAll", NoID, NoID, o)
UserFindByID ==
  /\ repo = "user"
  /\ \E id \in IDs, inj \in ReadInj : \E o \in PostgresUserRepo_FindByID(db, id, inj) :
       Return("FindByID", id, id, o)
UserFindByEmail ==
  /\ repo = "user"
  /\ \E email \in Emails, inj \in ReadInj :
       \E o \in PostgresUserRepo_FindByEmail(db, email, inj) :
         Return("FindByEmail", email, NoID, o)
UserFindByCredentials ==
  /\ repo = "user"
  /\ \E email \in Emails, pw \in Passwords \cup {WrongPassword}, inj \in ReadInj :
       \E o \in PostgresUserRepo_FindByCredentials(db, email, pw, inj) :
         Return("FindByCredentials", <<email, pw>>, NoID, o)
UserFindUserInfo ==
  /\ repo = "user"
  /\ \E id \in IDs, inj \in ReadInj : \E o \in PostgresUserRepo_FindUserInfo(db, id, inj) :
       Return("FindUserInfo", id, id, o)
UserCreate ==
  /\ repo = "user"
  /\ \E e \in Users, winj \in WriteInj : \E rinj \in ReadbackInj(winj) :
       \E fresh \in FreshIDs(db, "user", e.ID) :
         \E o \in PostgresUserRepo_Create(db, e, fresh, winj, rinj) :
           Return("Create", e, AssignID(e.ID, fresh), o)
UserUpdate ==
  /\ repo = "user"
  /\ \E e \in Users, winj \in WriteInj : \E rinj \in ReadbackInj(winj) :
       \E fresh \in FreshIDs(db, "user", e.ID) :
         \E o \in PostgresUserRepo_Update(db, e, fresh, winj, rinj) :
           Return("Update", e, AssignID(e.ID, fresh), o)
UserDelete ==
  /\ repo = "user"
  /\ \E id \in IDs, inj \in DeleteInj : \E o \in PostgresUserRepo_Delete(db, id, inj) :
       Return("Delete", id, id, o)

SchoolFindAll ==
  /\ repo = "school"
  /\ \E inj \in ReadInj : \E o \in PostgresSchoolRepo_FindAll(db, inj) :
       Return("FindAll", NoID, NoID, o)
SchoolFindByID ==
  /\ repo = "school"
  /\ \E id \in IDs, inj \in ReadInj : \E o \in PostgresSchoolRepo_FindByID(db, id, inj) :
       Return("FindByID", id, id, o)
SchoolFindUserSchools ==
  /\ repo = "school"
  /\ \E id \in IDs, inj \in ReadInj :
       \E o \in PostgresSchoolRepo_FindUserSchools(db, id, inj) :
         Return("FindUserSchools", id, NoID, o)
SchoolFindSchoolCourses ==
  /\ repo = "school"
  /\ \E id \in IDs, inj \in ReadInj :
       \E o \in PostgresSchoolRepo_FindSchoolCourses(db, id, inj) :
         Return("FindSchoolCourses", id, NoID, o)
SchoolFindSchoolTeachers ==
  /\ repo = "teachers"
  /\ \E id \in IDs, inj \in ReadInj :
       \E o \in PostgresSchoolRepo_FindSchoolTeachers(db, id, inj) :
         Return("FindSchoolTeachers", id, NoID, o)
SchoolIsSchoolTeacher ==
  /\ repo = "teachers"
  /\ \E s \in IDs, t \in IDs, inj \in ReadInj :
       \E o \in PostgresSchoolRepo_IsSchoolTeacher(db, s, t, inj) :
         Return("IsSchoolTeacher", <<s, t>>, NoID, o)
SchoolAddSchoolTeacher ==
  /\ repo = "teachers"
  /\ \E s \in IDs, t \in IDs, inj \in WriteInj :
       /\ \/ Cardinality(db.school_teacher) < MaxMembers
          \/ [school_id |-> s, teacher_id |-> t] \in db.school_teacher
       /\ \E o \in PostgresSchoolRepo_AddSchoolTeacher(db, s, t, inj) :
            Return("AddSchoolTeacher", <<s, t>>, NoID, o)
SchoolCreate ==
  /\ repo = "school"
  /\ \E e \in Schools, winj \in WriteInj : \E rinj \in ReadbackInj(winj) :
       \E fresh \in FreshIDs(db, "school", e.ID) :
         \E o \in PostgresSchoolRepo_Create(db, e, fresh, winj, rinj) :
           Return("Create", e, AssignID(e.ID, fresh), o)
SchoolUpdate ==
  /\ repo = "school"
  /\ \E e \in Schools, winj \in WriteInj : \E rinj \in ReadbackInj(winj) :
       \E fresh \in FreshIDs(db, "school", e.ID) :
         \E o \in PostgresSchoolRepo_Update(db, e, fresh, winj, rinj) :
           Return("Update", e, AssignID(e.ID, fresh), o)
SchoolDelete ==
  /\ repo = "school"
  /\ \E id \in IDs, inj \in DeleteInj : \E o \in PostgresSchoolRepo_Delete(db, id, inj) :
       Return("Delete", id, id, o)

ReviewFindAll ==
  /\ repo = "review"
  /\ \E inj \in ReadInj : \E o \in PostgresReviewRepo_FindAll(db, inj) :
       Return("FindAll", NoID, NoID, o)
ReviewFindByID ==
  /\ repo = "review"
  /\ \E id \in IDs, inj \in ReadInj : \E o \in PostgresReviewRepo_FindByID(db, id, inj) :
       Return("FindByID", id, id, o)
ReviewFindUserReviews ==
  /\ repo = "review"
  /\ \E id \in IDs, inj \in ReadInj :
       \E o \in PostgresReviewRepo_FindUserReviews(db, id, inj) :
         Return("FindUserReviews", id, NoID, o)
ReviewFindCourseReviews ==
  /\ repo = "review"
  /\ \E id \in IDs, inj \in ReadInj :
       \E o \in PostgresReviewRepo_FindCourseReviews(db, id, inj) :
         Return("FindCourseReviews", id, NoID, o)
ReviewCreate ==
  /\ repo = "review"
  /\ \E e \in Reviews, winj \in WriteInj : \E rinj \in ReadbackInj(winj) :
       \E fresh \in FreshIDs(db, "review", e.ID) :
         \E o \in PostgresReviewRepo_Create(db, e, fresh, winj, rinj) :
           Return("Create", e, AssignID(e.ID, fresh), o)
\* A review repository that has no Delete method.
Delete_NotOffered == FALSE

ReviewDelete ==
  /\ repo = "review"
  /\ \E id \in IDs, inj \in DeleteInj : \E o \in PostgresReviewRepo_Delete(db, id, inj) :
       Return("Delete", id, id, o)

CertificateFindAll ==
  /\ repo = "certificate"
  /\ \E inj \in ReadInj : \E o \in PostgresCertificateRepo_FindAll(db, inj) :
       Return("FindAll", NoID, NoID, o)
CertificateFindByID ==
  /\ repo = "certificate"
  /\ \E id \in IDs, inj \in ReadInj :
       \E o \in PostgresCertificateRepo_FindByID(db, id, inj) :
         Return("FindByID", id, id, o)
CertificateFindUserCertificates ==
  /\ repo = "certificate"
  /\ \E id \in IDs, inj \in ReadInj :
       \E o \in PostgresCertificateRepo_FindUserCertificates(db, id, inj) :
         Return("FindUserCertificates", id, NoID, o)
CertificateFindUserCourseCertificate ==
  /\ repo = "certificate"
  /\ \E c \in IDs, u \in IDs, inj \in ReadInj :
       \E o \in PostgresCertificateRepo_FindUserCourseCertificate(db, c, u, inj) :
         Return("FindUserCourseCertificate", <<c, u>>, NoID, o)
CertificateCreate ==
  /\ repo = "certificate"
  /\ \E e \in Certificates, winj \in WriteInj : \E rinj \in ReadbackInj(winj) :
       \E fresh \in FreshIDs(db, "certificate", e.ID) :
         \E o \in PostgresCertificateRepo_Create(db, e, fresh, winj, rinj) :
           Return("Create", e, AssignID(e.ID, fresh), o)

Next ==
  \/ UserFindAll \/ UserFindByID \/ UserFindByEmail \/ UserFindByCredentials
  \/ UserFindUserInfo \/ UserCreate \/ UserUpdate \/ UserDelete
  \/ SchoolFindAll \/ SchoolFindByID \/ SchoolFindUserSchools \/ SchoolFindSchoolCourses
  \/ SchoolFindSchoolTeachers \/ SchoolIsSchoolTeacher \/ SchoolAddSchoolTeacher
  \/ SchoolCreate \/ SchoolUpdate \/ SchoolDelete
  \/ ReviewFindAll \/ ReviewFindByID \/ ReviewFindUserReviews \/ ReviewFindCourseReviews
  \/ ReviewCreate \/ ReviewDelete
  \/ CertificateFindAll \/ CertificateFindByID \/ CertificateFindUserCertificates
  \/ CertificateFindUserCourseCertificate \/ CertificateCreate

Spec == Init /\ [][Next]_vars

(***************************************************************************)
(* Properties.                                                             *)
(***************************************************************************)
\* The driver's answer comes from the rows of the store: the statement ran,
\* or was refused for the rows it found (none, or one that collides).
RowAnswer(derr) == derr \in {NoErr, ErrNoRows, PgError(PgUniqueViolationCode)}
\* Every statement the call issued was answered from the rows.
Served(stmts) == \A i \in DOMAIN stmts : RowAnswer(stmts[i].err)

ZeroOf(r) ==
  CASE r = "user" -> ZeroUser
    [] r = "review" -> ZeroReview
    [] r = "certificate" -> ZeroCertificate
    [] OTHER -> ZeroSchool

\* C1: FindByID for an ID that has no row in the repository's relation returns an
\* error with the zero entity, NotFound whenever the store answered the query
\* (PersistenceFailed when the store itself failed); a nil error never comes with
\* a zero-valued entity.
C1_FindByIDMissingRow ==
  last.op = "FindByID" =>
    /\ ~last.existed =>
         /\ last.err # Nil
         /\ last.ret = ZeroOf(repo)
         /\ Served(last.stmts) => last.err.kind = ErrNotExist
         /\ ~Served(last.stmts) => last.err.kind = ErrPersistenceFailed
    /\ last.err = Nil => last.ret # ZeroOf(repo)

C1_Witness ==
  /\ repo = "user"
  /\ last.op = "FindByID"
  /\ ~last.existed
  /\ last.err.kind = ErrNotExist
  /\ db.user # {}

\* C2: a FindByID of the ID of the entity a successful Create has just returned,
\* with no call in between and the store answering, returns that same entity
\* without error.
C2_CreateThenFindByID ==
  [][(/\ last.op = "Create"
      /\ last.err = Nil
      /\ last'.op = "FindByID"
      /\ last'.arg = last.ret.ID
      /\ Served(last'.stmts))
     => (last'.err = Nil /\ last'.ret = last.ret)]_vars

C2_Witness ==
  /\ last.op = "FindByID"
  /\ prev.op = "Create"
  /\ last.err = Nil
  /\ last.ret.ID = last.key

\* The entity of a Create collides with a stored row: on the primary key, or on
\* the email of a user.
CreateCollides(store, r, call) ==
  \/ call.existed
  \/ r = "user" /\ \E row \in store.user : row.email = call.arg.Email

\* C3: a Create of an entity that collides on a uniqueness constraint with a
\* stored row returns Duplicate when the store answers the INSERT, and leaves the
\* store as it was: no row added, the stored rows unchanged.
C3_DuplicateCreate ==
  [][(/\ last'.op = "Create"
      /\ CreateCollides(db, repo, last')
      /\ Served(last'.stmts))
     => (last'.err.kind = ErrDuplicate /\ db' = db)]_vars

C3_Witness ==
  /\ repo = "user"
  /\ last.op = "Create"
  /\ ~last.existed
  /\ last.err.kind = ErrDuplicate
  /\ Cardinality(db.user) = 1

\* C4 (as claimed): a FindByID of the ID a successful Delete has just removed,
\* with no call in between and the store answering, returns NotFound, in every
\* repository that offers Delete.
C4_DeleteThenFindByID ==
  [][(/\ last.op = "Delete"
      /\ last.err = Nil
      /\ last'.op = "FindByID"
      /\ last'.arg = last.arg
      /\ Served(last'.stmts))
     => last'.err.kind = ErrNotExist]_vars

\* C5 (as claimed): a Delete of an ID that has no row in the repository's relation
\* returns no error when the store answers, and leaves the whole store unchanged.
C5_DeleteMissingRow ==
  [][(/\ last'.op = "Delete"
      /\ ~last'.existed
      /\ Served(last'.stmts))
     => (last'.err = Nil /\ db' = db)]_vars

\* C6: an Update of a stored row that succeeds returns the entity it was given,
\* and a FindByID of that ID right after it, the store answering, returns without
\* error the same entity: the fields of the Update, not the ones stored before.
C6_UpdateThenFindByID ==
  [][/\ (last'.op = "Update" /\ last'.existed /\ last'.err = Nil) => last'.ret = last'.arg
     /\ (/\ last.op = "Update"
         /\ last.existed
         /\ last.err = Nil
         /\ last'.op = "FindByID"
         /\ last'.arg = last.key
         /\ Served(last'.stmts))
        => (last'.err = Nil /\ last'.ret = last.arg /\ last'.ret = last.ret)]_vars

C6_Witness ==
  /\ last.op = "FindByID"
  /\ prev.op = "Update"
  /\ prev.wrote
  /\ last.err = Nil

\* C7: an Update for an ID that has no row, the store answering, is not refused at
\* the write step: the UPDATE succeeds on zero rows, the read-back is issued, the
\* call returns NotFound, and the store is unchanged (no row is created).
C7_UpdateMissingRow ==
  [][(/\ last'.op = "Update"
      /\ ~last'.existed
      /\ Served(last'.stmts))
     => (/\ Len(last'.stmts) = 2
         /\ last'.stmts[1].err = NoErr
         /\ last'.stmts[2].err = ErrNoRows
         /\ last'.err.kind = ErrNotExist
         /\ db' = db)]_vars

C7_Witness ==
  /\ repo = "user"
  /\ last.op = "Update"
  /\ ~last.existed
  /\ last.err.kind = ErrNotExist
  /\ \E r \in db.user : r.email = last.arg.Email

\* The first statement of the call was refused by the store with this code.
Refused(call, code) == Len(call.stmts) >= 1 /\ call.stmts[1].err = PgError(code)

\* C8 (as claimed): a Create whose INSERT the store refuses for an enumerated value
\* outside the allowed set returns EnumValueError, in every repository.
C8_EnumValueCreate ==
  (last.op = "Create" /\ Refused(last, PgEnumValueError))
    => last.err.kind = ErrEnumValueError

\* C9 (as claimed): a write the store refuses for a uniqueness violation returns
\* Duplicate, whichever of Create, Update and AddSchoolTeacher issued it.
C9_UniqueIsDuplicate ==
  (last.op \in {"Create", "Update", "AddSchoolTeacher"} /\ Refused(last, PgUniqueViolationCode))
    => last.err.kind = ErrDuplicate

\* C9 (amended): a write the store refuses for a uniqueness violation returns
\* Duplicate when Create or AddSchoolTeacher issued it, and UpdateFailed when
\* Update issued it.
C9_UniqueByOperation ==
  (last.op \in {"Create", "Update", "AddSchoolTeacher"} /\ Refused(last, PgUniqueViolationCode))
    => last.err.kind = IF last.op = "Update" THEN ErrUpdateFailed ELSE ErrDuplicate

C9_Witness ==
  /\ repo = "user"
  /\ last.op = "Update"
  /\ last.existed
  /\ Refused(last, PgUniqueViolationCode)
  /\ last.err.kind = ErrUpdateFailed

\* C10 (as claimed): every error a repository method returns is one of the six
\* kinds of the taxonomy.
C10_ClosedTaxonomy == last.err = Nil \/ last.err.kind \in ErrorKinds

\* The call ended on a statement that the caller's context cancelled.
Cancelled(call) == \E i \in DOMAIN call.stmts : call.stmts[i].err = CtxErr

\* C11 (as claimed): a call whose context is cancelled returns a failure that is
\* not reported as one of the storage failures PersistenceFailed, UpdateFailed,
\* DeleteFailed.
C11_CancellationDistinct ==
  Cancelled(last) => last.err.kind \notin {ErrPersistenceFailed, ErrUpdateFailed, ErrDeleteFailed}

(***************************************************************************)
(* Concurrent callers of one PostgresUserRepo.  The repository opens no    *)
(* transaction, so the write and the read-back of Create and Update are    *)
(* two statements of the store, and the statements of other calls can be   *)
(* served between them.  A call that has written and not yet read back     *)
(* sits in a slot of pend; race records what other calls did to its row    *)
(* since its write: "none", "deleted" (a Delete removed the row and it is  *)
(* still absent) or "rewritten" (a later INSERT put a row with that id     *)
(* back).                                                                  *)
(***************************************************************************)
ConcInj == {"none", "conn"}

\* A read-back that answers from the values the call wrote, without a query.
ReadBack_FromWrite(store, pgUser, write, rinj) ==
  {Out(<<write, Stmt("userFindByIDQuery", NoErr)>>, Nil, UserToDomain(pgUser), store)}

\* The second statement of Create: GetContext(userFindByIDQuery, pgUser.ID).
PostgresUserRepo_Create_ReadBack(store, pgUser, write, rinj) ==
  {IF r.err # NoErr
     THEN IF r.err = ErrNoRows
            THEN Out(<<write, Stmt("userFindByIDQuery", r.err)>>,
                     Wrap(ErrNotExist, r.err), ZeroUser, store)
            ELSE Out(<<write, Stmt("userFindByIDQuery", r.err)>>,
                     Wrap(ErrPersistenceFailed, r.err), ZeroUser, store)
     ELSE Out(<<write, Stmt("userFindByIDQuery", r.err)>>, Nil, UserToDomain(r.row), store)
   : r \in GetContext(store, userFindByIDQuery, <<pgUser.id>>, rinj)}

\* The second statement of Update: GetContext(userFindByIDQuery, pgUser.ID).
PostgresUserRepo_Update_ReadBack(store, pgUser, write, rinj) ==
  {IF r.err # NoErr
     THEN IF r.err = ErrNoRows
            THEN Out(<<write, Stmt("userFindByIDQuery", r.err)>>,
                     Wrap(ErrNotExist, r.err), ZeroUser, store)
            ELSE Out(<<write, Stmt("userFindByIDQuery", r.err)>>,
                     Wrap(ErrPersistenceFailed, r.err), ZeroUser, store)
     ELSE Out(<<write, Stmt("userFindByIDQuery", r.err)>>, Nil, UserToDomain(r.row), store)
   : r \in GetContext(store, userFindByIDQuery, <<pgUser.id>>, rinj)}

InFlight(s) == pend[s].op # "idle"

\* A call returns: its slot, if it had one, is free again.  The call is
\* recorded by the key it addressed; wrote tells whether its write changed
\* the store when it was served.
ConcReturn(op, key, wrote, o, slots) ==
  /\ db' = o.db
  /\ last' = [op |-> op, arg |-> key, key |-> key, existed |-> FALSE,
              stmts |-> o.stmts, err |-> o.err, ret |-> o.ret, wrote |-> wrote]
  /\ prev' = [op |-> "-", wrote |-> FALSE]
  /\ pend' = slots
  /\ UNCHANGED repo

\* What a statement that removed (gone) or inserted (back) the row id does to
\* the calls in flight on that id.
Raced(id, gone, back) ==
  [s \in Slots |->
     IF InFlight(s) /\ pend[s].id = id
       THEN IF gone THEN [pend[s] EXCEPT !.race = "deleted"]
            ELSE IF back /\ pend[s].race = "deleted" THEN [pend[s] EXCEPT !.race = "rewritten"]
            ELSE pend[s]
       ELSE pend[s]]

\* The write of a call: a failed write returns at once, a successful one
\* leaves the call in flight with the store already changed.
ConcWrite(op, pgUser, o) ==
  IF Len(o.stmts) = 1
    THEN ConcReturn(op, pgUser.id, o.db # db, o, pend)
    ELSE \E s \in Slots :
           /\ ~InFlight(s)
           /\ db' = o.db
           /\ pend' = [Raced(pgUser.id, FALSE, op = "Create") EXCEPT ![s] =
                         [op |-> op, id |-> pgUser.id, write |-> o.stmts[1],
                          wrote |-> (o.db # db), race |-> "none"]]
           /\ UNCHANGED <<repo, last, prev>>

ConcCreateWrite ==
  \E e \in Users, winj \in ConcInj : \E fresh \in FreshIDs(db, "user", e.ID) :
    \E o \in PostgresUserRepo_Create(db, e, fresh, winj, "none") :
      ConcWrite("Create", NewPgUser(e, fresh), o)

ConcUpdateWrite ==
  \E e \in Users, winj \in ConcInj : \E fresh \in FreshIDs(db, "user", e.ID) :
    \E o \in PostgresUserRepo_Update(db, e, fresh, winj, "none") :
      ConcWrite("Update", NewPgUser(e, fresh), o)

ConcCreateReadBack ==
  \E s \in Slots, rinj \in ConcInj :
    /\ pend[s].op = "Create"
    /\ \E o \in PostgresUserRepo_Create_ReadBack(db, [ZeroPgUser EXCEPT !.id = pend[s].id],
                                                 pend[s].write, rinj) :
         ConcReturn("Create", pend[s].id, pend[s].wrote, o, [pend EXCEPT ![s] = Idle])

ConcUpdateReadBack ==
  \E s \in Slots, rinj \in ConcInj :
    /\ pend[s].op = "Update"
    /\ \E o \in PostgresUserRepo_Update_ReadBack(db, [ZeroPgUser EXCEPT !.id = pend[s].id],
                                                 pend[s].write, rinj) :
         ConcReturn("Update", pend[s].id, pend[s].wrote, o, [pend EXCEPT ![s] = Idle])

ConcDelete ==
  \E id \in IDs, inj \in ConcInj :
    \E o \in PostgresUserRepo_Delete(db, id, inj) :
      ConcReturn("Delete", id, o.db # db, o, Raced(id, o.db # db, FALSE))

InitConc == Init /\ repo = "user"

NextConc ==
  \/ ConcCreateWrite
  \/ ConcUpdateWrite
  \/ ConcCreateReadBack
  \/ ConcUpdateReadBack
  \/ ConcDelete

SpecConc == InitConc /\ [][NextConc]_vars

\* The call of slot s returns in this step.
Returns(s) == InFlight(s) /\ pend'[s] = Idle

\* C12: the write and the read-back of Create and Update are not atomic.  A
\* call in flight whose row a concurrent Delete removed after the write, and
\* whose read-back the store answers, returns NotFound although its write
\* statement succeeded; a Create whose INSERT succeeded and whose row no
\* Delete removed never returns NotFound.
C12_ReadBackRace ==
  [][\A s \in Slots :
       Returns(s) =>
         /\ pend[s].race = "deleted" /\ RowAnswer(last'.stmts[2].err) =>
              /\ last'.err # Nil
              /\ last'.err.kind = ErrNotExist
              /\ last'.stmts[1].err = NoErr
              /\ pend[s].op = "Create" => pend[s].wrote
         /\ pend[s].op = "Create" /\ pend[s].race = "none" =>
              last'.err = Nil \/ last'.err.kind # ErrNotExist]_vars

\* A Create has returned NotFound after its INSERT succeeded and added the row.
C12_Witness ==
  /\ last.op = "Create"
  /\ last.wrote
  /\ Len(last.stmts) = 2
  /\ last.stmts[1].err = NoErr
  /\ last.stmts[2].err = ErrNoRows
  /\ last.err # Nil
  /\ last.err.kind = ErrNotExist

\* The kinds a call may return, by operation.
DeclaredKinds(op) ==
  CASE op = "FindByID" -> {ErrNotExist, ErrPersistenceFailed}
    [] op = "Create" -> {ErrDuplicate, ErrEnumValueError, ErrPersistenceFailed, ErrNotExist}
    [] op = "Update" -> {ErrUpdateFailed, ErrNotExist, ErrPersistenceFailed}
    [] op = "Delete" -> {ErrDeleteFailed}
    [] OTHER -> ErrorKinds \cup {"unclassified"}

\* C13: every failure of FindByID, Create, Update and Delete is of a kind of the
\* operation's declared set; a failure of the UPDATE statement itself is
\* UpdateFailed and a failure of the DELETE statement is DeleteFailed.
C13_DeclaredErrorSets ==
  /\ last.err # Nil => last.err.kind \in DeclaredKinds(last.op)
  /\ last.op = "Update" /\ last.stmts[1].err # NoErr =>
       last.err # Nil /\ last.err.kind = ErrUpdateFailed
  /\ last.op = "Delete" /\ last.stmts[1].err # NoErr =>
       last.err # Nil /\ last.err.kind = ErrDeleteFailed

\* A Delete whose statement failed has returned DeleteFailed.
C13_Witness ==
  /\ last.op = "Delete"
  /\ last.stmts[1].err = ConnErr
  /\ last.err # Nil
  /\ last.err.kind = ErrDeleteFailed

\* The statements of a call, by position: at most one write, then at most one
\* read, each issued once.
IsWrite(st) == st.query \in {"InsertQueryString", "UpdateQueryString", "schoolAddTeacherQuery"}
                 \/ st.query \in {"userDeleteQuery", "schoolDeleteQuery", "reviewDeleteQuery"}

\* C14: no call retries.  A call issues at most two statements, at most one of
\* them a write and the write first; the read-back is issued only after a
\* write that succeeded, and after a failed write the call returns at once
\* with the classified failure of that statement.
C14_NoRetry ==
  /\ Len(last.stmts) <= 2
  /\ Len(last.stmts) = 2 =>
       /\ IsWrite(last.stmts[1]) /\ ~IsWrite(last.stmts[2])
       /\ last.stmts[1].err = NoErr
  /\ Len(last.stmts) >= 1 /\ last.stmts[1].err # NoErr =>
       /\ Len(last.stmts) = 1
       /\ last.err # Nil
       /\ last.err.cause = last.stmts[1].err
       /\ ~last.wrote

\* A Create whose INSERT failed on the connection has returned after that one
\* statement.
C14_Witness ==
  /\ last.op = "Create"
  /\ Len(last.stmts) = 1
  /\ last.stmts[1].err = ConnErr
  /\ last.err # Nil
  /\ last.err.kind = ErrPersistenceFailed

Pair(s, t) == [school_id |-> s, teacher_id |-> t]

\* C15: AddSchoolTeacher for a pair that is already in school_teacher, when the
\* store answers the INSERT, returns Duplicate and leaves school_teacher as it
\* was, the pair still in it.
C15_DuplicateMembership ==
  [][last'.op = "AddSchoolTeacher" /\ Pair(last'.arg[1], last'.arg[2]) \in db.school_teacher
       /\ Served(last'.stmts) =>
         /\ last'.err # Nil
         /\ last'.err.kind = ErrDuplicate
         /\ db'.school_teacher = db.school_teacher
         /\ Pair(last'.arg[1], last'.arg[2]) \in db'.school_teacher]_vars

\* AddSchoolTeacher has returned Duplicate for a pair that is in the relation.
C15_Witness ==
  /\ last.op = "AddSchoolTeacher"
  /\ Served(last.stmts)
  /\ last.err # Nil
  /\ last.err.kind = ErrDuplicate
  /\ Pair(last.arg[1], last.arg[2]) \in db.school_teacher

ListOps ==
  {"FindAll", "FindUserSchools", "FindSchoolCourses", "FindSchoolTeachers", "FindUserReviews",
   "FindCourseReviews", "FindUserCertificates"}

\* The rows of the store a list finder is asked for.
AskedRows(r, op, arg, store) ==
  CASE op = "FindAll" -> store[OwnTable(r)]
    [] op = "FindUserSchools" -> {x \in store.school : x.owner_id = arg}
    [] op = "FindSchoolCourses" -> {x \in store.course : x.school_id = arg}
    [] op = "FindSchoolTeachers" ->
         {x \in store.user : Has(store, "school", arg) /\ Pair(arg, x.id) \in store.school_teacher}
    [] op = "FindUserReviews" -> {x \in store.review : x.user_id = arg}
    [] op = "FindCourseReviews" -> {x \in store.review : x.course_id = arg}
    [] op = "FindUserCertificates" -> {x \in store.certificate : x.user_id = arg}

\* The entities a list finder returns for a list of rows, one per row and in
\* the order of the rows.
Converted(r, op, rows) ==
  [i \in DOMAIN rows |->
     CASE op = "FindSchoolCourses" -> CourseToDomain(rows[i])
       [] op = "FindSchoolTeachers" -> UserToDomain(rows[i])
       [] r = "user" -> UserToDomain(rows[i])
       [] r = "school" -> SchoolToDomain(rows[i])
       [] r = "review" -> ReviewToDomain(rows[i])
       [] r = "certificate" -> CertificateToDomain(rows[i])]

\* C17: FindAll and the list finders never return NotFound; when the store
\* answers, they return without error the rows asked for, each converted, one
\* entity per row and in an order of the store, so the empty list when no row
\* matches.
C17_ListFinders ==
  last.op \in ListOps =>
    /\ last.err = Nil \/ last.err.kind # ErrNotExist
    /\ Served(last.stmts) =>
         /\ last.err = Nil
         /\ Len(last.ret) = Cardinality(AskedRows(repo, last.op, last.arg, db))
         /\ \E rows \in Orders(AskedRows(repo, last.op, last.arg, db)) :
              last.ret = Converted(repo, last.op, rows)

\* FindAll has returned two entities.
C17_Witness ==
  /\ last.op = "FindAll"
  /\ last.err = Nil
  /\ Len(last.ret) = 2

\* A list finder has returned the empty list without error.
C17_WitnessEmpty ==
  /\ last.op \in ListOps
  /\ last.op # "FindAll"
  /\ last.err = Nil
  /\ last.ret = <<>>

\* The relation a call of the repository writes to, by the operation's contract.
WriteTable(r, op) == IF op = "AddSchoolTeacher" THEN "school_teacher" ELSE OwnTable(r)

\* C18 (as claimed): a call changes no relation but the one of its
\* repository's entity; in particular a Delete of the review repository leaves
\* the school relation as it was.
C18_OwnRelationOnly ==
  [][\A t \in Tables : t # WriteTable(repo, last'.op) => db'[t] = db[t]]_vars

\* What IsSchoolTeacher(s, t) answers on a store that serves it.
IsTeacher(store, s, t) ==
  \A o \in PostgresSchoolRepo_IsSchoolTeacher(store, s, t, "none") : o.err = Nil /\ o.ret

\* C19: when AddSchoolTeacher(s, t) returns without error, IsSchoolTeacher(s, t)
\* is true on the store it leaves and IsSchoolTeacher of every other pair, the
\* swapped pair (t, s) included, is what it was before; and a call of
\* IsSchoolTeacher that the store serves returns this answer.
C19_AddThenIsSchoolTeacher ==
  [][/\ last'.op = "AddSchoolTeacher" /\ last'.err = Nil =>
          /\ IsTeacher(db', last'.arg[1], last'.arg[2])
          /\ \A s \in IDs, t \in IDs :
               <<s, t>> # last'.arg => (IsTeacher(db', s, t) <=> IsTeacher(db, s, t))
     /\ last'.op = "IsSchoolTeacher" /\ Served(last'.stmts) =>
          /\ last'.err = Nil
          /\ last'.ret = IsTeacher(db, last'.arg[1], last'.arg[2])
          /\ last'.ret = (Pair(last'.arg[1], last'.arg[2]) \in db.school_teacher)]_vars

\* IsSchoolTeacher(1, 2) has returned true: the pair (1, 2) was added, and
\* the swapped pair is not in the relation.
C19_Witness ==
  /\ last.op = "IsSchoolTeacher"
  /\ last.arg = <<1, 2>>
  /\ last.err = Nil
  /\ last.ret = TRUE
  /\ Pair(2, 1) \notin db.school_teacher

\* The row a Create or Update of repository r writes for entity e under key.
WrittenRow(r, e, key) ==
  CASE r = "user" -> NewPgUser(e, key)
    [] r = "school" -> NewPgSchool(e, key)
    [] r = "review" -> NewPgReview(e, key)
    [] r = "certificate" -> NewPgCertificate(e, key)

\* The call issued its write and its read-back, and the read-back failed.
ReadBackFailed(call) ==
  /\ call.op \in {"Create", "Update"}
  /\ Len(call.stmts) = 2
  /\ call.stmts[1].err = NoErr
  /\ call.stmts[2].err # NoErr

\* C20: a Create or Update whose write succeeded and whose read-back failed
\* returns NotFound or PersistenceFailed and the write stays: the row a Create
\* inserted is in the store, which differs from the store before the call, and
\* the row an Update addressed carries the values of the call.
C20_WriteStaysAfterFailedReadBack ==
  [][ReadBackFailed(last') =>
       /\ last'.err # Nil
       /\ last'.err.kind \in {ErrNotExist, ErrPersistenceFailed}
       /\ last'.op = "Create" =>
            /\ WrittenRow(repo, last'.arg, last'.key) \notin db[OwnTable(repo)]
            /\ WrittenRow(repo, last'.arg, last'.key) \in db'[OwnTable(repo)]
            /\ db' # db
       /\ last'.op = "Update" /\ Has(db, OwnTable(repo), last'.key) =>
            /\ WrittenRow(repo, last'.arg, last'.key) \in db'[OwnTable(repo)]
            /\ db'[OwnTable(repo)] =
                 {x \in db[OwnTable(repo)] : x.id # last'.key}
                   \cup {WrittenRow(repo, last'.arg, last'.key)}]_vars

\* A Create has returned PersistenceFailed from its read-back and the row it
\* inserted is in the store.
C20_Witness ==
  /\ last.op = "Create"
  /\ ReadBackFailed(last)
  /\ last.err # Nil
  /\ last.err.kind = ErrPersistenceFailed
  /\ last.wrote
  /\ WrittenRow(repo, last.arg, last.key) \in db[OwnTable(repo)]

\* An Update has returned an error from its read-back after changing the row.
C20_WitnessUpdate ==
  /\ last.op = "Update"
  /\ ReadBackFailed(last)
  /\ last.err # Nil
  /\ last.wrote
  /\ WrittenRow(repo, last.arg, last.key) \in db[OwnTable(repo)]

EntityRepos == {"user", "school", "review", "certificate"}

\* The repository has the method: a call of it can be made and returns.
Offers(op) == ENABLED (Next /\ last'.op = op)

====
